---- MODULE Spec2Model ----
(***************************************************************************)
(* msi-acrpull: the AcrPullBinding reconciler (pkg/controller), the ACR    *)
(* token exchange and the Authorizer (pkg/authorizer), as state machines.  *)
(*                                                                         *)
(*   Spec          the reconciler against the object store, two Bindings   *)
(*   SpecRefresh   getTokenRefreshDuration over expiry x now               *)
(*   SpecSelector  specOrDefault and the Authorizer entry point chosen     *)
(*   SpecExchange  ExchangeACRAccessToken, one remote call per step        *)
(*                                                                         *)
(* Time is counted in minutes.  A Duration is a bounded signed integer;    *)
(* time.Time.Sub saturates at the ends of that range, as in Go.            *)
(***************************************************************************)
EXTENDS Integers, Sequences, FiniteSets, TLC

VARIABLES
    bindings,         \* object store: AcrPullBinding objects, by name
    secrets,          \* object store: Secret objects, by name
    serviceAccounts,  \* object store: ServiceAccount objects, by name
    rec,              \* per Binding: the reconciliation in flight / last finished
    now,              \* the wall clock (minutes)
    faults,           \* object-store call failures injected so far
    envOps,           \* out-of-band edits (user, other controllers) so far
    fn,               \* SpecRefresh / SpecSelector: the last call and its result
    ex                \* SpecExchange: the exchange in flight

vars == <<bindings, secrets, serviceAccounts, rec, now, faults, envOps, fn, ex>>

-----------------------------------------------------------------------------
(* Constants of the program *)

dockerConfigKey == ".dockerconfigjson"
msiAcrPullFinalizerName == "msi-acrpull.microsoft.com"
defaultServiceAccountName == "default"
\* time.Minute * 30, in minutes
tokenRefreshBuffer == 30
SecretTypeDockerConfigJson == "kubernetes.io/dockerconfigjson"

(* Bounds of the model *)

\* a Duration is DurationBits wide plus sign (int64 nanoseconds in Go)
DurationBits == 5
maxDuration == 2^DurationBits - 1
minDuration == 0 - 2^DurationBits
\* the instants SpecRefresh draws expiry and now from
TimeMax == maxDuration + tokenRefreshBuffer + 4
Instants == 0..TimeMax

-----------------------------------------------------------------------------
(* Small helpers *)

Min(a, b) == IF a < b THEN a ELSE b
Max(a, b) == IF a > b THEN a ELSE b

RECURSIVE FilterOut(_, _)
\* slices.DeleteFunc(s, func(x) bool { return x == v })
FilterOut(s, v) ==
    IF s = <<>> THEN <<>>
    ELSE IF Head(s) = v THEN FilterOut(Tail(s), v)
         ELSE <<Head(s)>> \o FilterOut(Tail(s), v)

\* slices.Contains / slices.ContainsFunc with a name match
Contains(s, v) == \E i \in 1..Len(s) : s[i] = v

Count(s, v) == Cardinality({i \in 1..Len(s) : s[i] = v})

-----------------------------------------------------------------------------
(* time *)

\* time.Time.Sub: t - u as a Duration, saturating
TimeSub(t, u) == Max(minDuration, Min(maxDuration, t - u))

\* time.Time.Add
TimeAdd(t, d) == t + d

getTokenRefreshDurationNoFloor(expiresOn, nowT) ==
    TimeSub(expiresOn, TimeAdd(nowT, tokenRefreshBuffer))

getTokenRefreshDuration(expiresOn, nowT) ==
    LET refreshDuration == TimeSub(expiresOn, TimeAdd(nowT, tokenRefreshBuffer))
    IN  IF refreshDuration < 0 THEN 0 ELSE refreshDuration

-----------------------------------------------------------------------------
(* Strings that path.Clean reads are sequences of one-character strings;    *)
(* "" is <<>>.  The other identifiers (client ids) use the same encoding.   *)

\* longest managed-identity resource id SpecSelector draws
PathLen == 3
PathChars == {"/", ".", "a"}
PathStrings == UNION {[1..n -> PathChars] : n \in 0..PathLen}

EmptyStr == <<>>
Dot == <<".">>
DotDot == <<".", ".">>

RECURSIVE SplitSlash(_, _)
\* the path elements of s between slashes, empty elements dropped;
\* cur is the element being read
SplitSlash(s, cur) ==
    IF s = <<>> THEN (IF cur = <<>> THEN <<>> ELSE <<cur>>)
    ELSE IF Head(s) = "/"
         THEN (IF cur = <<>> THEN <<>> ELSE <<cur>>) \o SplitSlash(Tail(s), <<>>)
         ELSE SplitSlash(Tail(s), Append(cur, Head(s)))

RECURSIVE CleanElems(_, _, _)
\* path.Clean's pass over the elements: drop ".", let ".." remove the element
\* before it (or drop it at the root, or keep it at the start of a relative path)
CleanElems(elems, stack, rooted) ==
    IF elems = <<>> THEN stack
    ELSE LET e == Head(elems)
             rest == Tail(elems)
         IN  IF e = Dot THEN CleanElems(rest, stack, rooted)
             ELSE IF e = DotDot
                  THEN IF Len(stack) > 0 /\ stack[Len(stack)] /= DotDot
                       THEN CleanElems(rest, SubSeq(stack, 1, Len(stack) - 1), rooted)
                       ELSE IF rooted THEN CleanElems(rest, stack, rooted)
                            ELSE CleanElems(rest, Append(stack, e), rooted)
                  ELSE CleanElems(rest, Append(stack, e), rooted)

RECURSIVE JoinSlash(_)
JoinSlash(elems) ==
    IF elems = <<>> THEN <<>>
    ELSE IF Len(elems) = 1 THEN elems[1]
         ELSE elems[1] \o <<"/">> \o JoinSlash(Tail(elems))

\* path.Clean
pathClean(p) ==
    IF p = <<>> THEN Dot
    ELSE LET rooted == p[1] = "/"
             out == (IF rooted THEN <<"/">> ELSE <<>>)
                        \o JoinSlash(CleanElems(SplitSlash(p, <<>>), <<>>, rooted))
         IN  IF out = <<>> THEN Dot ELSE out

-----------------------------------------------------------------------------
(* specOrDefault and the choice of the Authorizer entry point.              *)
(* r: the reconciler's Default* fields; spec: the Binding's spec.           *)

specOrDefault(r, spec) ==
    LET msiClientID == spec.ManagedIdentityClientID
        msiResourceID == pathClean(spec.ManagedIdentityResourceID)
        acrServer == spec.AcrServer
    IN  [msiClientID |->
            IF msiClientID = EmptyStr THEN r.DefaultManagedIdentityClientID ELSE msiClientID,
         msiResourceID |->
            IF msiResourceID = Dot THEN r.DefaultManagedIdentityResourceID ELSE msiResourceID,
         acrServer |-> IF acrServer = "" THEN r.DefaultACRServer ELSE acrServer]

\* Reconcile, the call on r.Auth: which entry point, with which arguments
AuthCall(r, spec) ==
    LET s == specOrDefault(r, spec)
    IN  IF s.msiClientID /= EmptyStr
        THEN [method |-> "AcquireACRAccessTokenWithClientID",
              id |-> s.msiClientID, acrFQDN |-> s.acrServer]
        ELSE [method |-> "AcquireACRAccessTokenWithResourceID",
              id |-> s.msiResourceID, acrFQDN |-> s.acrServer]

-----------------------------------------------------------------------------
(* The objects of the store.  One namespace; an absent object is the zero   *)
(* object with exists = FALSE.                                              *)

Bindings == {"b1", "b2"}
Namespace == "ns1"
OtherFinalizer == "example.com/other"
OtherServiceAccount == "builder"
ServiceAccountNames == {defaultServiceAccountName, OtherServiceAccount}

\* fmt.Sprintf("%s-msi-acrpull-secret", acrBindingName); a name is the pair
getPullSecretName(acrBindingName) == <<acrBindingName, "-msi-acrpull-secret">>

\* a Secret created out of band with a controller reference to Binding b1
ExtraSecretName == <<"b1", "-extra">>
\* a reference the default ServiceAccount holds from the start
RegCredName == <<"", "regcred">>
SecretNames == {getPullSecretName(b) : b \in Bindings} \cup {ExtraSecretName}

\* the AcrPullBindingReconciler's Default* fields (end-to-end scenario of the spec)
Reconciler ==
    [DefaultManagedIdentityResourceID |-> <<"/", "a">>,
     DefaultManagedIdentityClientID |-> EmptyStr,
     DefaultACRServer |-> "r.azurecr.io"]

\* b1 sets no selector; b2 names a client id and its own registry
InitialSpec(b) ==
    IF b = "b1"
    THEN [ManagedIdentityClientID |-> EmptyStr, ManagedIdentityResourceID |-> EmptyStr,
          AcrServer |-> "", ServiceAccountName |-> ""]
    ELSE [ManagedIdentityClientID |-> <<"c">>, ManagedIdentityResourceID |-> EmptyStr,
          AcrServer |-> "r2.azurecr.io", ServiceAccountName |-> ""]

NoTime == 0 - 1
ZeroStatus == [TokenExpirationTime |-> NoTime, LastTokenRefreshTime |-> NoTime, Error |-> ""]

ZeroSpec ==
    [ManagedIdentityClientID |-> EmptyStr, ManagedIdentityResourceID |-> EmptyStr,
     AcrServer |-> "", ServiceAccountName |-> ""]

NoBinding ==
    [exists |-> FALSE, name |-> "", deleting |-> FALSE, finalizers |-> <<>>,
     spec |-> ZeroSpec, status |-> ZeroStatus]

EmptyData == [k \in {} |-> <<>>]
NoSecret ==
    [exists |-> FALSE, name |-> <<"", "">>, namespace |-> "", owner |-> "", type |-> "",
     labels |-> {}, dataNil |-> TRUE, data |-> EmptyData]

NoServiceAccount == [exists |-> FALSE, name |-> "", imagePullSecrets |-> <<>>]

\* map assignment m[k] = v
Put(m, k, v) == [x \in (DOMAIN m) \cup {k} |-> IF x = k THEN v ELSE m[x]]

\* the tokens the Authorizer issues: bearer string and lifetime (minutes)
TokenKinds == {[Token |-> "tokA", life |-> 20], [Token |-> "tokB", life |-> 40]}
\* the zero azcore.AccessToken
ZeroToken == [Token |-> "", ExpiresOn |-> NoTime]

\* authorizer.CreateACRDockerCfg: the credential document for one registry,
\* fixed username, the token as password
CreateACRDockerCfg(acrServer, accessToken) ==
    <<acrServer, "00000000-0000-0000-0000-000000000000", accessToken.Token>>

-----------------------------------------------------------------------------
(* Helpers of the reconciler *)

getServiceAccountName(userSpecifiedName) ==
    IF userSpecifiedName /= "" THEN userSpecifiedName ELSE defaultServiceAccountName

\* the index in pullSecrets of the Secret named after the Binding, 0 for nil
getPullSecret(acrBinding, pullSecrets) ==
    LET pullSecretName == getPullSecretName(acrBinding.name)
        hits == {i \in 1..Len(pullSecrets) : pullSecrets[i].name = pullSecretName}
    IN  IF hits = {} THEN 0 ELSE CHOOSE i \in hits : \A j \in hits : i <= j

newBasePullSecretNoOwner(acrBinding, dockerConfig) ==
    [exists |-> TRUE, name |-> getPullSecretName(acrBinding.name),
     namespace |-> Namespace, owner |-> "", type |-> SecretTypeDockerConfigJson,
     labels |-> {}, dataNil |-> FALSE,
     data |-> [k \in {dockerConfigKey} |-> dockerConfig]]

\* newBasePullSecret, ctrl.SetControllerReference included
newBasePullSecret(acrBinding, dockerConfig) ==
    [exists |-> TRUE, name |-> getPullSecretName(acrBinding.name),
     namespace |-> Namespace, owner |-> acrBinding.name,
     type |-> SecretTypeDockerConfigJson,
     labels |-> {}, dataNil |-> FALSE,
     data |-> [k \in {dockerConfigKey} |-> dockerConfig]]

updatePullSecretReplaceData(pullSecret, dockerConfig) ==
    [pullSecret EXCEPT !.data = [k \in {dockerConfigKey} |-> dockerConfig]]

\* updatePullSecret on a Secret whose Data map is not nil (a nil map panics, see
\* the step that calls it)
updatePullSecret(pullSecret, dockerConfig) ==
    [pullSecret EXCEPT !.data = Put(pullSecret.data, dockerConfigKey, dockerConfig)]

appendImagePullSecretRefOnly(serviceAccount, secretName) ==
    [serviceAccount EXCEPT !.imagePullSecrets = <<secretName>>]

\* appendImagePullSecretRef: the reference goes to the end of the list
appendImagePullSecretRef(serviceAccount, secretName) ==
    [serviceAccount EXCEPT !.imagePullSecrets = Append(@, secretName)]

-----------------------------------------------------------------------------
(* Bounds of the reconciler model *)

\* disturbances in one behaviour: object-store calls that fail with a server
\* error (faults) plus out-of-band edits of the store (envOps)
MaxDisturbances == 1
\* the clock runs from 0 to MaxNow
MaxNow == 1

MayDisturb == faults + envOps < MaxDisturbances

FaultChoices == IF MayDisturb THEN {FALSE, TRUE} ELSE {FALSE}

-----------------------------------------------------------------------------
(* A reconciliation: its local variables and the record of its calls.       *)
(* A local copy of an object carries `fresh`: its resourceVersion is still  *)
(* the stored one, so an Update sent from it is not a Conflict.             *)

NoLocalBinding == [obj |-> NoBinding, fresh |-> FALSE]
NoLocalServiceAccount == [obj |-> NoServiceAccount, fresh |-> FALSE]
NoResult == [err |-> "", RequeueAfter |-> 0]

IdleRec ==
    [pc |-> "idle", acrBinding |-> NoLocalBinding, token |-> ZeroToken, err |-> "",
     pullSecrets |-> <<>>, serviceAccount |-> NoLocalServiceAccount,
     log |-> <<>>, result |-> NoResult]

\* one call on the store or on the Authorizer: what was sent or received
Event(op, kind, name, err, obj) ==
    [op |-> op, kind |-> kind, name |-> name, err |-> err, obj |-> obj]

\* return ctrl.Result{RequeueAfter: d}, err : the locals go out of scope
Finish(r, e, err, d) ==
    [IdleRec EXCEPT !.pc = "done", !.log = Append(r.log, e),
                    !.result = [err |-> err, RequeueAfter |-> d]]

\* the error of an Update or Status().Update sent from a local copy
UpdateErr(fail, stored, fresh) ==
    IF fail THEN "StoreFault"
    ELSE IF ~stored.exists THEN "NotFound"
    ELSE IF ~fresh THEN "Conflict"
    ELSE ""

\* a write of ServiceAccount sa by anyone but Binding b's reconciliation makes
\* the copies the other reconciliations hold stale
StaleServiceAccount(recs, sa, b) ==
    [x \in Bindings |->
        IF x /= b /\ recs[x].serviceAccount.obj.name = sa
        THEN [recs[x] EXCEPT !.serviceAccount.fresh = FALSE]
        ELSE recs[x]]

\* an out-of-band write of Secret n makes the listed copies of it stale
StaleSecret(recs, n) ==
    [x \in Bindings |->
        [recs[x] EXCEPT !.pullSecrets =
            [i \in 1..Len(@) |->
                IF @[i].obj.name = n THEN [@[i] EXCEPT !.fresh = FALSE] ELSE @[i]]]]

\* an out-of-band write of Binding b makes its reconciliation's copy stale
StaleBinding(recs, b) ==
    [recs EXCEPT ![b].acrBinding.fresh = FALSE]

Orderings(S) ==
    {q \in [1..Cardinality(S) -> S] : \A i, j \in 1..Cardinality(S) : i /= j => q[i] /= q[j]}

-----------------------------------------------------------------------------
(* Initial states *)

\* Binding b1 exists, with another controller's finalizer on it, and is watched;
\* Binding b2 does not exist and nothing triggers its reconciliation
InitStore ==
    /\ bindings = [b \in Bindings |->
          IF b = "b1"
          THEN [exists |-> TRUE, name |-> b, deleting |-> FALSE,
                finalizers |-> <<OtherFinalizer>>,
                spec |-> InitialSpec(b), status |-> ZeroStatus]
          ELSE NoBinding]
    /\ secrets = [n \in SecretNames |-> NoSecret]
    /\ serviceAccounts = [a \in ServiceAccountNames |->
          [exists |-> TRUE, name |-> a,
           imagePullSecrets |-> IF a = defaultServiceAccountName
                                THEN <<RegCredName>> ELSE <<>>]]
    /\ rec = [b \in Bindings |->
          IF b = "b1" THEN IdleRec ELSE [IdleRec EXCEPT !.pc = "off"]]
    /\ now = 0
    /\ faults = 0
    /\ envOps = 0

NoCall == [op |-> "none"]
ExIdle == [pc |-> "idle", n |-> 0, armToken |-> ""]

Init ==
    /\ InitStore
    /\ fn = NoCall
    /\ ex = ExIdle

-----------------------------------------------------------------------------
(* What the store does with a write it accepts *)

\* Update of a Binding: metadata and spec are stored, status is a subresource;
\* a Binding under deletion whose last finalizer goes is removed
StoreBinding(stored, obj) ==
    IF stored.deleting /\ obj.finalizers = <<>>
    THEN NoBinding
    ELSE [stored EXCEPT !.finalizers = obj.finalizers, !.spec = obj.spec]

\* Status().Update of a Binding: only the status is stored
StoreStatus(stored, obj) == [stored EXCEPT !.status = obj.status]

-----------------------------------------------------------------------------
(* Reconcile, one step per remote call *)

\* Reconcile on a failed fetch: not-found is swallowed, any other error returned
fetchErrorKeepNotFound(err) == err

fetchError(err) == IF err = "NotFound" THEN "" ELSE err

hasFinalizer(acrBinding) == Contains(acrBinding.finalizers, msiAcrPullFinalizerName)

afterFetchIgnoreDeletion(acrBinding) ==
    IF ~hasFinalizer(acrBinding) THEN "addFinalizer" ELSE "acquire"

\* Reconcile after the fetch: the branch on DeletionTimestamp, and the tests
\* that open addFinalizer and removeFinalizer
afterFetch(acrBinding) ==
    IF ~acrBinding.deleting
    THEN IF ~hasFinalizer(acrBinding) THEN "addFinalizer" ELSE "acquire"
    ELSE IF hasFinalizer(acrBinding) THEN "finGetServiceAccount" ELSE "return"

\* the controller-runtime trigger: a watch event or a due requeue
StartReconcile(b) ==
    /\ rec[b].pc \in {"idle", "done"}
    /\ rec' = [rec EXCEPT ![b] = [IdleRec EXCEPT !.pc = "fetch"]]
    /\ UNCHANGED <<bindings, secrets, serviceAccounts, now, faults, envOps, fn, ex>>

\* r.Get(ctx, req.NamespacedName, &acrBinding) and the branch that follows
Fetch(b) ==
    /\ rec[b].pc = "fetch"
    /\ \E fail \in FaultChoices :
          LET r == rec[b]
              stored == bindings[b]
              err == IF fail THEN "StoreFault"
                     ELSE IF ~stored.exists THEN "NotFound" ELSE ""
              e == Event("Get", "AcrPullBinding", b, err,
                         IF err = "" THEN stored ELSE NoBinding)
          IN  /\ faults' = IF fail THEN faults + 1 ELSE faults
              /\ rec' = [rec EXCEPT ![b] =
                    IF err /= "" THEN Finish(r, e, fetchError(err), 0)
                    ELSE IF afterFetch(stored) = "return" THEN Finish(r, e, "", 0)
                    ELSE [r EXCEPT !.pc = afterFetch(stored),
                                   !.acrBinding = [obj |-> stored, fresh |-> TRUE],
                                   !.log = Append(@, e)]]
    /\ UNCHANGED <<bindings, secrets, serviceAccounts, now, envOps, fn, ex>>

afterAddFinalizerRequeue(err) == "return"

\* Reconcile after addFinalizer: an error returns, otherwise the cycle goes on
afterAddFinalizer(err) == IF err /= "" THEN "return" ELSE "acquire"

\* addFinalizer: append the finalizer and r.Update the Binding
AddFinalizer(b) ==
    /\ rec[b].pc = "addFinalizer"
    /\ \E fail \in FaultChoices :
          LET r == rec[b]
              obj == [r.acrBinding.obj EXCEPT
                         !.finalizers = Append(@, msiAcrPullFinalizerName)]
              err == UpdateErr(fail, bindings[b], r.acrBinding.fresh)
              e == Event("Update", "AcrPullBinding", b, err, obj)
          IN  /\ faults' = IF fail THEN faults + 1 ELSE faults
              /\ bindings' = IF err = ""
                             THEN [bindings EXCEPT ![b] = StoreBinding(@, obj)]
                             ELSE bindings
              /\ rec' = [rec EXCEPT ![b] =
                    IF afterAddFinalizer(err) = "return" THEN Finish(r, e, err, 0)
                    ELSE [r EXCEPT !.pc = afterAddFinalizer(err),
                                   !.acrBinding.obj = obj,
                                   !.log = Append(@, e)]]
    /\ UNCHANGED <<secrets, serviceAccounts, now, envOps, fn, ex>>

\* r.Auth.AcquireACRAccessTokenWith{ClientID,ResourceID}: the Authorizer answers
\* with a token or with an error
Acquire(b) ==
    /\ rec[b].pc = "acquire"
    /\ \E ok \in BOOLEAN, k \in TokenKinds :
          LET r == rec[b]
              call == AuthCall(Reconciler, r.acrBinding.obj.spec)
              tok == IF ok THEN [Token |-> k.Token, ExpiresOn |-> now + k.life]
                     ELSE ZeroToken
              err == IF ok THEN "" ELSE "AuthErr"
              e == Event("Acquire", "Authorizer", b, err, [call |-> call, token |-> tok])
          IN  rec' = [rec EXCEPT ![b] =
                 [r EXCEPT !.pc = IF ok THEN "list" ELSE "errStatus",
                           !.token = tok, !.err = err, !.log = Append(@, e)]]
    /\ UNCHANGED <<bindings, secrets, serviceAccounts, now, faults, envOps, fn, ex>>

authFailureResultLastError(authErr, statusErr) ==
    IF statusErr /= "" THEN statusErr ELSE authErr

\* Reconcile on an Authorizer error: the error returned after setErrStatus
authFailureResult(authErr, statusErr) == authErr

\* setErrStatus: Status.Error = err.Error(), the rest of the status as fetched
setErrStatus(acrBinding, err) == [acrBinding EXCEPT !.status.Error = err]

\* setErrStatus's r.Status().Update, then return ctrl.Result{}, err
ErrStatus(b) ==
    /\ rec[b].pc = "errStatus"
    /\ \E fail \in FaultChoices :
          LET r == rec[b]
              obj == setErrStatus(r.acrBinding.obj, r.err)
              err == UpdateErr(fail, bindings[b], r.acrBinding.fresh)
              e == Event("StatusUpdate", "AcrPullBinding", b, err, obj)
          IN  /\ faults' = IF fail THEN faults + 1 ELSE faults
              /\ bindings' = IF err = ""
                             THEN [bindings EXCEPT ![b] = StoreStatus(@, obj)]
                             ELSE bindings
              /\ rec' = [rec EXCEPT ![b] =
                    Finish(r, e, authFailureResult(r.err, err), 0)]
    /\ UNCHANGED <<secrets, serviceAccounts, now, envOps, fn, ex>>

\* the Secrets the owner index holds for Binding b
OwnedSecrets(b) == {n \in SecretNames : secrets[n].exists /\ secrets[n].owner = b}

\* r.List(ctx, &pullSecrets, InNamespace, MatchingFields{ownerKey: req.Name});
\* the order of the items is the store's
List(b) ==
    /\ rec[b].pc = "list"
    /\ \E fail \in FaultChoices, order \in Orderings(OwnedSecrets(b)) :
          LET r == rec[b]
              items == [i \in 1..Len(order) |-> [obj |-> secrets[order[i]], fresh |-> TRUE]]
              err == IF fail THEN "StoreFault" ELSE ""
              e == Event("List", "Secret", b, err,
                         IF fail THEN <<>> ELSE [i \in 1..Len(order) |-> secrets[order[i]]])
          IN  /\ faults' = IF fail THEN faults + 1 ELSE faults
              /\ rec' = [rec EXCEPT ![b] =
                    IF fail THEN Finish(r, e, err, 0)
                    ELSE [r EXCEPT !.pc = "writeSecret", !.pullSecrets = items,
                                   !.log = Append(@, e)]]
    /\ UNCHANGED <<bindings, secrets, serviceAccounts, now, envOps, fn, ex>>

\* the credential document of this cycle
dockerConfigOf(r) ==
    CreateACRDockerCfg(specOrDefault(Reconciler, r.acrBinding.obj.spec).acrServer, r.token)

\* Reconcile, the update branch: the Secret it hands to updatePullSecret is
\* &pullSecrets.Items[0]
secretToUpdate(pullSecrets, idx) == pullSecrets[1]

afterWriteSecretIgnoreError(err) == "getServiceAccount"

\* Reconcile after r.Create or r.Update of the Secret: an error returns
afterWriteSecret(err) == IF err /= "" THEN "return" ELSE "getServiceAccount"

\* Create a new pull secret if getPullSecret found none, else update in place
WriteSecret(b) ==
    /\ rec[b].pc = "writeSecret"
    /\ LET r == rec[b]
           idx == getPullSecret(r.acrBinding.obj, [i \in 1..Len(r.pullSecrets) |->
                                                      r.pullSecrets[i].obj])
           cfg == dockerConfigOf(r)
       IN  IF idx = 0
           THEN \E fail \in FaultChoices :
                  LET obj == newBasePullSecret(r.acrBinding.obj, cfg)
                      err == IF fail THEN "StoreFault"
                             ELSE IF secrets[obj.name].exists THEN "AlreadyExists"
                             ELSE ""
                      e == Event("Create", "Secret", obj.name, err, obj)
                  IN  /\ faults' = IF fail THEN faults + 1 ELSE faults
                      /\ secrets' = IF err = "" THEN [secrets EXCEPT ![obj.name] = obj]
                                    ELSE secrets
                      /\ rec' = [rec EXCEPT ![b] =
                            IF afterWriteSecret(err) = "return" THEN Finish(r, e, err, 0)
                            ELSE [r EXCEPT !.pc = afterWriteSecret(err),
                                           !.pullSecrets = <<>>,
                                           !.log = Append(@, e)]]
           ELSE LET target == secretToUpdate(r.pullSecrets, idx)
                IN  IF target.obj.dataNil
                    THEN \* assignment to an entry in a nil map
                         /\ rec' = [rec EXCEPT ![b] =
                               Finish(r, Event("panic", "Secret", target.obj.name,
                                               "panic", target.obj), "panic", 0)]
                         /\ UNCHANGED <<secrets, faults>>
                    ELSE \E fail \in FaultChoices :
                           LET obj == updatePullSecret(target.obj, cfg)
                               err == UpdateErr(fail, secrets[obj.name], target.fresh)
                               e == Event("Update", "Secret", obj.name, err, obj)
                           IN  /\ faults' = IF fail THEN faults + 1 ELSE faults
                               /\ secrets' = IF err = ""
                                             THEN [secrets EXCEPT ![obj.name] = obj]
                                             ELSE secrets
                               /\ rec' = [rec EXCEPT ![b] =
                                     IF afterWriteSecret(err) = "return"
                                     THEN Finish(r, e, err, 0)
                                     ELSE [r EXCEPT !.pc = afterWriteSecret(err),
                                                    !.pullSecrets = <<>>,
                                                    !.log = Append(@, e)]]
    /\ UNCHANGED <<bindings, serviceAccounts, now, envOps, fn, ex>>

\* the ServiceAccount this cycle works on
serviceAccountNameOf(r) == getServiceAccountName(r.acrBinding.obj.spec.ServiceAccountName)

needsAttachAlways(serviceAccount, pullSecretName) == TRUE

\* updateServiceAccount: the reference is appended only if no reference has the name
needsAttach(serviceAccount, pullSecretName) ==
    ~Contains(serviceAccount.imagePullSecrets, pullSecretName)

\* updateServiceAccount: r.Get of the ServiceAccount
GetServiceAccount(b) ==
    /\ rec[b].pc = "getServiceAccount"
    /\ \E fail \in FaultChoices :
          LET r == rec[b]
              sa == serviceAccountNameOf(r)
              stored == serviceAccounts[sa]
              err == IF fail THEN "StoreFault"
                     ELSE IF ~stored.exists THEN "NotFound" ELSE ""
              e == Event("Get", "ServiceAccount", sa, err,
                         IF err = "" THEN stored ELSE NoServiceAccount)
          IN  /\ faults' = IF fail THEN faults + 1 ELSE faults
              /\ rec' = [rec EXCEPT ![b] =
                    IF err /= "" THEN Finish(r, e, err, 0)
                    ELSE IF needsAttach(stored, getPullSecretName(r.acrBinding.obj.name))
                    THEN [r EXCEPT !.pc = "updateServiceAccount",
                                   !.serviceAccount = [obj |-> stored, fresh |-> TRUE],
                                   !.log = Append(@, e)]
                    ELSE [r EXCEPT !.pc = "successStatus", !.log = Append(@, e)]]
    /\ UNCHANGED <<bindings, secrets, serviceAccounts, now, envOps, fn, ex>>

\* updateServiceAccount: appendImagePullSecretRef and r.Update
UpdateServiceAccount(b) ==
    /\ rec[b].pc = "updateServiceAccount"
    /\ \E fail \in FaultChoices :
          LET r == rec[b]
              obj == appendImagePullSecretRef(r.serviceAccount.obj,
                                              getPullSecretName(r.acrBinding.obj.name))
              err == UpdateErr(fail, serviceAccounts[obj.name], r.serviceAccount.fresh)
              e == Event("Update", "ServiceAccount", obj.name, err, obj)
          IN  /\ faults' = IF fail THEN faults + 1 ELSE faults
              /\ serviceAccounts' = IF err = ""
                                    THEN [serviceAccounts EXCEPT ![obj.name] = obj]
                                    ELSE serviceAccounts
              /\ LET recs == [rec EXCEPT ![b] =
                        IF err /= "" THEN Finish(r, e, err, 0)
                        ELSE [r EXCEPT !.pc = "successStatus",
                                       !.serviceAccount = NoLocalServiceAccount,
                                       !.log = Append(@, e)]]
                 IN  rec' = IF err = "" THEN StaleServiceAccount(recs, obj.name, b)
                            ELSE recs
    /\ UNCHANGED <<bindings, secrets, now, envOps, fn, ex>>

setSuccessStatusKeepError(acrBinding, accessToken, nowT) ==
    [acrBinding EXCEPT !.status.TokenExpirationTime = accessToken.ExpiresOn,
                       !.status.LastTokenRefreshTime = nowT]

\* setSuccessStatus: the status is replaced as a whole
setSuccessStatus(acrBinding, accessToken, nowT) ==
    [acrBinding EXCEPT !.status =
        [TokenExpirationTime |-> accessToken.ExpiresOn,
         LastTokenRefreshTime |-> nowT,
         Error |-> ""]]

\* setSuccessStatus's r.Status().Update, then
\* return ctrl.Result{RequeueAfter: getTokenRefreshDuration(acrAccessToken)}, nil
SuccessStatus(b) ==
    /\ rec[b].pc = "successStatus"
    /\ \E fail \in FaultChoices :
          LET r == rec[b]
              obj == setSuccessStatus(r.acrBinding.obj, r.token, now)
              err == UpdateErr(fail, bindings[b], r.acrBinding.fresh)
              e == Event("StatusUpdate", "AcrPullBinding", b, err, obj)
          IN  /\ faults' = IF fail THEN faults + 1 ELSE faults
              /\ bindings' = IF err = ""
                             THEN [bindings EXCEPT ![b] = StoreStatus(@, obj)]
                             ELSE bindings
              /\ rec' = [rec EXCEPT ![b] =
                    IF err /= "" THEN Finish(r, e, err, 0)
                    ELSE Finish(r, e, "", getTokenRefreshDuration(r.token.ExpiresOn, now))]
    /\ UNCHANGED <<secrets, serviceAccounts, now, envOps, fn, ex>>

\* removeFinalizer: a ServiceAccount that is not found is not an error
afterFinGetErrorOnNotFound(err) ==
    IF err /= "" THEN "return" ELSE "finUpdateServiceAccount"

\* removeFinalizer after r.Get of the ServiceAccount
afterFinGet(err) ==
    IF err = "NotFound" THEN "finUpdate"
    ELSE IF err /= "" THEN "return"
    ELSE "finUpdateServiceAccount"

\* removeFinalizer: r.Get of the ServiceAccount
FinGetServiceAccount(b) ==
    /\ rec[b].pc = "finGetServiceAccount"
    /\ \E fail \in FaultChoices :
          LET r == rec[b]
              sa == serviceAccountNameOf(r)
              stored == serviceAccounts[sa]
              err == IF fail THEN "StoreFault"
                     ELSE IF ~stored.exists THEN "NotFound" ELSE ""
              e == Event("Get", "ServiceAccount", sa, err,
                         IF err = "" THEN stored ELSE NoServiceAccount)
          IN  /\ faults' = IF fail THEN faults + 1 ELSE faults
              /\ rec' = [rec EXCEPT ![b] =
                    IF afterFinGet(err) = "return" THEN Finish(r, e, err, 0)
                    ELSE [r EXCEPT !.pc = afterFinGet(err),
                                   !.serviceAccount =
                                       IF err = "" THEN [obj |-> stored, fresh |-> TRUE]
                                       ELSE NoLocalServiceAccount,
                                   !.log = Append(@, e)]]
    /\ UNCHANGED <<bindings, secrets, serviceAccounts, now, envOps, fn, ex>>

afterFinUpdateServiceAccountIgnoreError(err) == "finUpdate"

\* removeFinalizer after r.Update of the ServiceAccount: an error returns
afterFinUpdateServiceAccount(err) == IF err /= "" THEN "return" ELSE "finUpdate"

\* removeFinalizer: slices.DeleteFunc of the reference by name, and r.Update
FinUpdateServiceAccount(b) ==
    /\ rec[b].pc = "finUpdateServiceAccount"
    /\ \E fail \in FaultChoices :
          LET r == rec[b]
              obj == [r.serviceAccount.obj EXCEPT !.imagePullSecrets =
                         FilterOut(@, getPullSecretName(r.acrBinding.obj.name))]
              err == UpdateErr(fail, serviceAccounts[obj.name], r.serviceAccount.fresh)
              e == Event("Update", "ServiceAccount", obj.name, err, obj)
          IN  /\ faults' = IF fail THEN faults + 1 ELSE faults
              /\ serviceAccounts' = IF err = ""
                                    THEN [serviceAccounts EXCEPT ![obj.name] = obj]
                                    ELSE serviceAccounts
              /\ LET recs == [rec EXCEPT ![b] =
                        IF afterFinUpdateServiceAccount(err) = "return"
                        THEN Finish(r, e, err, 0)
                        ELSE [r EXCEPT !.pc = afterFinUpdateServiceAccount(err),
                                       !.serviceAccount = NoLocalServiceAccount,
                                       !.log = Append(@, e)]]
                 IN  rec' = IF err = "" THEN StaleServiceAccount(recs, obj.name, b)
                            ELSE recs
    /\ UNCHANGED <<bindings, secrets, now, envOps, fn, ex>>

\* removeFinalizer: slices.DeleteFunc of the finalizer, and r.Update of the
\* Binding; Reconcile then returns ctrl.Result{}, nil
FinUpdate(b) ==
    /\ rec[b].pc = "finUpdate"
    /\ \E fail \in FaultChoices :
          LET r == rec[b]
              obj == [r.acrBinding.obj EXCEPT !.finalizers =
                         FilterOut(@, msiAcrPullFinalizerName)]
              err == UpdateErr(fail, bindings[b], r.acrBinding.fresh)
              e == Event("Update", "AcrPullBinding", b, err, obj)
          IN  /\ faults' = IF fail THEN faults + 1 ELSE faults
              /\ bindings' = IF err = ""
                             THEN [bindings EXCEPT ![b] = StoreBinding(@, obj)]
                             ELSE bindings
              /\ rec' = [rec EXCEPT ![b] = Finish(r, e, err, 0)]
    /\ UNCHANGED <<secrets, serviceAccounts, now, envOps, fn, ex>>

-----------------------------------------------------------------------------
(* The environment: the user, the garbage collector, other writers *)

\* the controller that owns the other finalizer removes it from a Binding
\* under deletion; with no finalizer left the object goes
OtherControllerFinalize(b) ==
    /\ bindings[b].exists /\ bindings[b].deleting
    /\ Contains(bindings[b].finalizers, OtherFinalizer)
    /\ bindings' = [bindings EXCEPT ![b] =
          StoreBinding(@, [@ EXCEPT !.finalizers = FilterOut(@, OtherFinalizer)])]
    /\ rec' = StaleBinding(rec, b)
    /\ UNCHANGED <<secrets, serviceAccounts, now, faults, envOps, fn, ex>>

\* kubectl delete: the deletion timestamp is set; with no finalizer left the
\* object goes at once
UserDeleteBinding(b) ==
    /\ bindings[b].exists /\ ~bindings[b].deleting
    /\ bindings' = [bindings EXCEPT ![b] =
          IF @.finalizers = <<>> THEN NoBinding ELSE [@ EXCEPT !.deleting = TRUE]]
    /\ rec' = StaleBinding(rec, b)
    /\ UNCHANGED <<secrets, serviceAccounts, now, faults, envOps, fn, ex>>

\* the user points the Binding at the other ServiceAccount, or back
UserSetServiceAccount(b) ==
    /\ MayDisturb
    /\ bindings[b].exists /\ ~bindings[b].deleting
    /\ bindings' = [bindings EXCEPT ![b].spec.ServiceAccountName =
          IF @ = "" THEN OtherServiceAccount ELSE ""]
    /\ rec' = StaleBinding(rec, b)
    /\ envOps' = envOps + 1
    /\ UNCHANGED <<secrets, serviceAccounts, now, faults, fn, ex>>

DeleteServiceAccount(a) ==
    /\ MayDisturb
    /\ serviceAccounts[a].exists
    /\ serviceAccounts' = [serviceAccounts EXCEPT ![a] = NoServiceAccount]
    /\ envOps' = envOps + 1
    /\ UNCHANGED <<bindings, secrets, rec, now, faults, fn, ex>>

\* an out-of-band edit of a Secret: a label and a data key are added
EditSecret(n) ==
    /\ MayDisturb
    /\ secrets[n].exists
    /\ secrets' = [secrets EXCEPT ![n] =
          [@ EXCEPT !.labels = @ \cup {"team"}, !.dataNil = FALSE,
                    !.data = Put(@, "note", <<"opaque">>)]]
    /\ rec' = StaleSecret(rec, n)
    /\ envOps' = envOps + 1
    /\ UNCHANGED <<bindings, serviceAccounts, now, faults, fn, ex>>

\* an out-of-band edit of a Secret: its data is removed.  The API server keeps
\* the .dockerconfigjson key on a Secret of type kubernetes.io/dockerconfigjson,
\* so only a Secret of another type can be left without data; the edit is part
\* of the disturbance that made that Secret
ClearSecretData(n) ==
    /\ secrets[n].exists /\ ~secrets[n].dataNil
    /\ secrets[n].type /= SecretTypeDockerConfigJson
    /\ secrets' = [secrets EXCEPT ![n] = [@ EXCEPT !.dataNil = TRUE, !.data = EmptyData]]
    /\ rec' = StaleSecret(rec, n)
    /\ UNCHANGED <<bindings, serviceAccounts, now, faults, envOps, fn, ex>>

\* someone creates a second Secret with a controller reference to Binding b1
CreateExtraSecret ==
    /\ MayDisturb
    /\ bindings["b1"].exists /\ ~secrets[ExtraSecretName].exists
    /\ secrets' = [secrets EXCEPT ![ExtraSecretName] =
          [exists |-> TRUE, name |-> ExtraSecretName, namespace |-> Namespace,
           owner |-> "b1", type |-> "Opaque", labels |-> {}, dataNil |-> FALSE,
           data |-> [k \in {"note"} |-> <<"opaque">>]]]
    /\ envOps' = envOps + 1
    /\ UNCHANGED <<bindings, serviceAccounts, rec, now, faults, fn, ex>>

\* owner-reference cascade: a Secret whose owning Binding is gone is deleted
GarbageCollect(n) ==
    /\ secrets[n].exists /\ secrets[n].owner \in Bindings
    /\ ~bindings[secrets[n].owner].exists
    /\ secrets' = [secrets EXCEPT ![n] = NoSecret]
    /\ UNCHANGED <<bindings, serviceAccounts, rec, now, faults, envOps, fn, ex>>

Tick ==
    /\ now < MaxNow
    /\ now' = now + 1
    /\ UNCHANGED <<bindings, secrets, serviceAccounts, rec, faults, envOps, fn, ex>>

Next ==
    \/ \E b \in Bindings : StartReconcile(b)
    \/ \E b \in Bindings : Fetch(b)
    \/ \E b \in Bindings : AddFinalizer(b)
    \/ \E b \in Bindings : Acquire(b)
    \/ \E b \in Bindings : ErrStatus(b)
    \/ \E b \in Bindings : List(b)
    \/ \E b \in Bindings : WriteSecret(b)
    \/ \E b \in Bindings : GetServiceAccount(b)
    \/ \E b \in Bindings : UpdateServiceAccount(b)
    \/ \E b \in Bindings : SuccessStatus(b)
    \/ \E b \in Bindings : FinGetServiceAccount(b)
    \/ \E b \in Bindings : FinUpdateServiceAccount(b)
    \/ \E b \in Bindings : FinUpdate(b)
    \/ \E b \in Bindings : UserDeleteBinding(b)
    \/ \E b \in Bindings : OtherControllerFinalize(b)
    \/ \E b \in Bindings : UserSetServiceAccount(b)
    \/ \E a \in ServiceAccountNames : DeleteServiceAccount(a)
    \/ \E n \in SecretNames : EditSecret(n)
    \/ \E n \in SecretNames : ClearSecretData(n)
    \/ CreateExtraSecret
    \/ \E n \in SecretNames : GarbageCollect(n)
    \/ Tick

Spec == Init /\ [][Next]_vars

-----------------------------------------------------------------------------
(* SpecRefresh: getTokenRefreshDuration on every expiry and every now *)

InitRefresh ==
    /\ InitStore
    /\ fn = NoCall
    /\ ex = ExIdle

CallGetTokenRefreshDuration ==
    /\ fn.op = "none"
    /\ \E expiresOn \in Instants, nowT \in Instants :
          fn' = [op |-> "getTokenRefreshDuration", expiresOn |-> expiresOn, now |-> nowT,
                 out |-> getTokenRefreshDuration(expiresOn, nowT)]
    /\ UNCHANGED <<bindings, secrets, serviceAccounts, rec, now, faults, envOps, ex>>

NextRefresh == CallGetTokenRefreshDuration

SpecRefresh == InitRefresh /\ [][NextRefresh]_vars

-----------------------------------------------------------------------------
(* SpecSelector: specOrDefault and the Authorizer call on every combination *)
(* of binding-level and default selectors                                   *)

ClientIDs == {EmptyStr, <<"c">>}
DefaultClientIDs == {EmptyStr, <<"d">>}
DefaultResourceIDs == {EmptyStr, <<"/", "d">>}
AcrServers == {"", "r2.azurecr.io"}
DefaultAcrServers == {"", "r.azurecr.io"}

InitSelector ==
    /\ InitStore
    /\ fn = NoCall
    /\ ex = ExIdle

CallSpecOrDefault ==
    /\ fn.op = "none"
    /\ \E cid \in ClientIDs, rid \in PathStrings, srv \in AcrServers,
          dcid \in DefaultClientIDs, drid \in DefaultResourceIDs,
          dsrv \in DefaultAcrServers :
          LET r == [DefaultManagedIdentityResourceID |-> drid,
                    DefaultManagedIdentityClientID |-> dcid,
                    DefaultACRServer |-> dsrv]
              spec == [ManagedIdentityClientID |-> cid, ManagedIdentityResourceID |-> rid,
                       AcrServer |-> srv, ServiceAccountName |-> ""]
          IN  fn' = [op |-> "specOrDefault", r |-> r, spec |-> spec,
                     out |-> AuthCall(r, spec)]
    /\ UNCHANGED <<bindings, secrets, serviceAccounts, rec, now, faults, envOps, ex>>

NextSelector == CallSpecOrDefault

SpecSelector == InitSelector /\ [][NextSelector]_vars

-----------------------------------------------------------------------------
(* SpecConcurrent: two Bindings of one namespace, both attached to the      *)
(* default ServiceAccount, reconciled by two workers at once.  The store    *)
(* answers every call; the only writers are the two reconciliations, the    *)
(* user who deletes a Binding, and the garbage collector.                   *)

InitConcurrent ==
    /\ bindings = [b \in Bindings |->
          [exists |-> TRUE, name |-> b, deleting |-> FALSE, finalizers |-> <<>>,
           spec |-> InitialSpec(b), status |-> ZeroStatus]]
    /\ secrets = [n \in SecretNames |-> NoSecret]
    /\ serviceAccounts = [a \in ServiceAccountNames |->
          [exists |-> TRUE, name |-> a,
           imagePullSecrets |-> IF a = defaultServiceAccountName
                                THEN <<RegCredName>> ELSE <<>>]]
    /\ rec = [b \in Bindings |-> IdleRec]
    /\ now = 0
    /\ faults = MaxDisturbances
    /\ envOps = 0
    /\ fn = NoCall
    /\ ex = ExIdle

NextConcurrent ==
    \/ \E b \in Bindings : StartReconcile(b)
    \/ \E b \in Bindings : Fetch(b)
    \/ \E b \in Bindings : AddFinalizer(b)
    \/ \E b \in Bindings : Acquire(b)
    \/ \E b \in Bindings : ErrStatus(b)
    \/ \E b \in Bindings : List(b)
    \/ \E b \in Bindings : WriteSecret(b)
    \/ \E b \in Bindings : GetServiceAccount(b)
    \/ \E b \in Bindings : UpdateServiceAccount(b)
    \/ \E b \in Bindings : SuccessStatus(b)
    \/ \E b \in Bindings : FinGetServiceAccount(b)
    \/ \E b \in Bindings : FinUpdateServiceAccount(b)
    \/ \E b \in Bindings : FinUpdate(b)
    \/ \E b \in Bindings : UserDeleteBinding(b)
    \/ \E n \in SecretNames : GarbageCollect(n)

SpecConcurrent == InitConcurrent /\ [][NextConcurrent]_vars

-----------------------------------------------------------------------------
(* SpecExchange: an Authorizer entry point, then ExchangeACRAccessToken.    *)
(* Every remote call is a step; its answer is drawn from what the remote    *)
(* side can send.                                                           *)

\* int64 on a scaled width: the seconds time.Unix takes
Int64Bits == 3
maxInt64 == 2^(Int64Bits - 1) - 1
minInt64 == 0 - 2^(Int64Bits - 1)

\* calls of an Authorizer entry point in one behaviour
MaxCalls == 2

\* the largest expiry claim (epoch seconds) the registry sends: one beyond int64
MaxExp == maxInt64 + 1

ArmTokens == {"arm1", "arm2"}
\* registry hosts; the last one does not parse as a URL host
AcrFQDNs == {"r.azurecr.io", "r2.azurecr.io", "bad host"}
validHost(acrFQDN) == acrFQDN /= "bad host"

\* a token field of a response: a nil pointer, or a pointer to a string
NilString == [present |-> FALSE, value |-> ""]
Ptr(v) == [present |-> TRUE, value |-> v]
RefreshResponses ==
    {[err |-> TRUE, RefreshToken |-> NilString]}
        \cup {[err |-> FALSE, RefreshToken |-> t] : t \in {NilString, Ptr(""), Ptr("rt1")}}

(* The exp claim as jwt.MapClaims holds it after decoding:                  *)
(*   float64      the value is half/2 (so halves are representable)         *)
(*   json.Number  a decimal text: an integer n, or text that is no integer  *)
(*   string, missing                                                        *)
ExpClaims ==
    {[type |-> "float64", half |-> h, text |-> ""] : h \in (0 - 1)..(2 * MaxExp + 1)}
        \cup {[type |-> "json.Number", half |-> 2 * n, text |-> "int"] : n \in 0..MaxExp}
        \cup {[type |-> "json.Number", half |-> 3, text |-> "1.5"],
              [type |-> "json.Number", half |-> 0, text |-> "abc"],
              [type |-> "string", half |-> 0, text |-> "soon"],
              [type |-> "missing", half |-> 0, text |-> ""]}

NoClaim == [type |-> "missing", half |-> 0, text |-> ""]

\* the access-token strings: empty, not a JWT, or a JWT with an exp claim
AccessTokenStrings ==
    {[raw |-> "", wellFormed |-> FALSE, exp |-> NoClaim],
     [raw |-> "garbage", wellFormed |-> FALSE, exp |-> NoClaim]}
        \cup {[raw |-> "jwt", wellFormed |-> TRUE, exp |-> c] : c \in ExpClaims}

NoAccessString == [raw |-> "", wellFormed |-> FALSE, exp |-> NoClaim]
AccessResponses ==
    {[err |-> TRUE, present |-> FALSE, AccessToken |-> NoAccessString],
     [err |-> FALSE, present |-> FALSE, AccessToken |-> NoAccessString]}
        \cup {[err |-> FALSE, present |-> TRUE, AccessToken |-> a] : a \in AccessTokenStrings}

\* f = half/2 with its fraction dropped
truncate(half) == IF half >= 0 THEN half \div 2 ELSE 0 - ((0 - half) \div 2)

\* int64(f) for a float64 f = half/2: truncation toward zero; for a value int64
\* cannot represent the result depends on the build (the smallest int64 on
\* amd64, the nearest int64 on arm64)
floatToInt64Rounded(half) ==
    LET t == (half + 1) \div 2
    IN  IF t > maxInt64 THEN {minInt64, maxInt64}
        ELSE IF t < minInt64 THEN {minInt64}
        ELSE {t}
floatToInt64(half) ==
    LET t == truncate(half)
    IN  IF t > maxInt64 THEN {minInt64, maxInt64}
        ELSE IF t < minInt64 THEN {minInt64}
        ELSE {t}

\* json.Number.Int64 with its error dropped: strconv.ParseInt gives 0 for text
\* that is no integer, and the nearest int64 for an integer out of range
numberInt64(claim) ==
    IF claim.text = "int"
    THEN Max(minInt64, Min(maxInt64, claim.half \div 2))
    ELSE 0

\* time.Unix(sec, 0)
timeUnix(sec) == sec

\* ExchangeACRAccessToken from the parse of the access token on: the
\* (AccessToken, error) pairs it can return
decodeAccessToken(accessToken) ==
    IF ~accessToken.wellFormed
    THEN {[token |-> ZeroToken, err |-> "failed to parse ACR access token"]}
    ELSE IF accessToken.exp.type = "float64"
    THEN {[token |-> [Token |-> accessToken.raw, ExpiresOn |-> timeUnix(sec)],
           err |-> ""] : sec \in floatToInt64(accessToken.exp.half)}
    ELSE IF accessToken.exp.type = "json.Number"
    THEN {[token |-> [Token |-> accessToken.raw,
                      ExpiresOn |-> timeUnix(numberInt64(accessToken.exp))],
           err |-> ""]}
    ELSE {[token |-> ZeroToken,
           err |-> "failed to parse ACR acess token expiration"]}

ExDone(e, calls, token, err) ==
    [e EXCEPT !.pc = "done", !.calls = calls, !.token = token, !.err = err]

InitExchange ==
    /\ InitStore
    /\ fn = NoCall
    /\ ex = ExIdle

\* a caller enters AcquireACRAccessTokenWithResourceID or ...WithClientID; the
\* Authorizer has no fields, so nothing of an earlier call is at hand (n and
\* prevArmToken only record the history)
ExStart ==
    /\ ex.pc \in {"idle", "done"}
    /\ ex.n < MaxCalls
    /\ \E m \in {"ResourceID", "ClientID"}, fqdn \in AcrFQDNs :
          ex' = [pc |-> "acquireARM", n |-> ex.n + 1, prevArmToken |-> ex.armToken,
                 method |-> m, acrFQDN |-> fqdn, armToken |-> "",
                 refresh |-> [err |-> FALSE, RefreshToken |-> NilString],
                 access |-> [err |-> FALSE, present |-> FALSE,
                             AccessToken |-> NoAccessString],
                 calls |-> <<>>, token |-> ZeroToken, err |-> ""]
    /\ UNCHANGED <<bindings, secrets, serviceAccounts, rec, now, faults, envOps, fn>>

afterAcquireARMIgnoreError(ok) == "exchange"

\* the entry point after AcquireARMToken: an error returns
afterAcquireARM(ok) == IF ~ok THEN "return" ELSE "exchange"

\* AcquireARMToken(ctx, azidentity.ResourceID(id) | azidentity.ClientID(id))
ExAcquireARM ==
    /\ ex.pc = "acquireARM"
    /\ \E ok \in BOOLEAN, t \in ArmTokens :
          LET calls == Append(ex.calls, [api |-> "AcquireARMToken", arg |-> ex.method])
          IN  ex' = IF afterAcquireARM(ok) = "return"
                    THEN ExDone(ex, calls, ZeroToken, "failed to get ARM access token")
                    ELSE [ex EXCEPT !.pc = afterAcquireARM(ok),
                                    !.armToken = IF ok THEN t ELSE "",
                                    !.calls = calls]
    /\ UNCHANGED <<bindings, secrets, serviceAccounts, rec, now, faults, envOps, fn>>

\* return ExchangeACRAccessToken(ctx, armToken, acrFQDN): the call, and the
\* url.Parse of the endpoint that opens it
ExExchange ==
    /\ ex.pc = "exchange"
    /\ LET calls == Append(ex.calls, [api |-> "ExchangeACRAccessToken",
                                      arg |-> <<ex.armToken, ex.acrFQDN>>])
       IN  ex' = IF ~validHost(ex.acrFQDN)
                 THEN ExDone(ex, calls, ZeroToken, "failed to parse ACR endpoint")
                 ELSE [ex EXCEPT !.pc = "refresh", !.calls = calls]
    /\ UNCHANGED <<bindings, secrets, serviceAccounts, rec, now, faults, envOps, fn>>

\* if refreshResponse.RefreshToken == nil
refreshTokenMissing(refreshResponse) == ~refreshResponse.RefreshToken.present

\* client.ExchangeAADAccessTokenForACRRefreshToken and the checks of its answer
ExRefresh ==
    /\ ex.pc = "refresh"
    /\ \E resp \in RefreshResponses :
          LET calls == Append(ex.calls,
                          [api |-> "ExchangeAADAccessTokenForACRRefreshToken",
                           arg |-> ex.armToken])
              e == [ex EXCEPT !.refresh = resp]
          IN  ex' = IF resp.err
                    THEN ExDone(e, calls, ZeroToken,
                           "failed to exchange AAD access token for ACR refresh token")
                    ELSE IF refreshTokenMissing(resp)
                    THEN ExDone(e, calls, ZeroToken,
                           "got an empty response when exchanging AAD access token for ACR refresh token")
                    ELSE [e EXCEPT !.pc = "access", !.calls = calls]
    /\ UNCHANGED <<bindings, secrets, serviceAccounts, rec, now, faults, envOps, fn>>

\* if accessResponse.AccessToken == nil
accessTokenMissing(accessResponse) == ~accessResponse.present

\* client.ExchangeACRRefreshTokenForACRAccessToken with *refreshResponse.RefreshToken,
\* the checks of its answer, and the decoding of the token
ExAccess ==
    /\ ex.pc = "access"
    /\ \E resp \in AccessResponses : \E d \in decodeAccessToken(resp.AccessToken) :
          LET calls == Append(ex.calls,
                          [api |-> "ExchangeACRRefreshTokenForACRAccessToken",
                           arg |-> ex.refresh.RefreshToken.value])
              e == [ex EXCEPT !.access = resp]
          IN  ex' = IF resp.err
                    THEN ExDone(e, calls, ZeroToken,
                           "failed to exchange ACR refresh token for ACR access token")
                    ELSE IF accessTokenMissing(resp)
                    THEN ExDone(e, calls, ZeroToken,
                           "got an empty response when exchanging ACR refresh token for ACR access token")
                    ELSE ExDone(e, calls, d.token, d.err)
    /\ UNCHANGED <<bindings, secrets, serviceAccounts, rec, now, faults, envOps, fn>>

NextExchange ==
    \/ ExStart
    \/ ExAcquireARM
    \/ ExExchange
    \/ ExRefresh
    \/ ExAccess

SpecExchange == InitExchange /\ [][NextExchange]_vars

-----------------------------------------------------------------------------
(* Reading a reconciliation's record of calls *)

Log(b) == rec[b].log
Done(b) == rec[b].pc = "done"
Calls(b, op, kind) == {i \in 1..Len(Log(b)) : Log(b)[i].op = op /\ Log(b)[i].kind = kind}
AllCallsOk(b) == \A i \in 1..Len(Log(b)) : Log(b)[i].err = ""

\* the cycle fetched its Binding
Fetched(b) == Len(Log(b)) >= 1 /\ Log(b)[1].op = "Get" /\ Log(b)[1].err = ""
FetchedBinding(b) == Log(b)[1].obj
\* the cycle is an Active one: the fetched Binding has no deletion timestamp
Active(b) == Fetched(b) /\ ~FetchedBinding(b).deleting
Finalizing(b) == Fetched(b) /\ FetchedBinding(b).deleting

\* the Authorizer issued a token in this cycle
AuthOk(b) == \E i \in Calls(b, "Acquire", "Authorizer") : Log(b)[i].err = ""
AuthFailed(b) == \E i \in Calls(b, "Acquire", "Authorizer") : Log(b)[i].err /= ""
IssuedToken(b) ==
    LET i == CHOOSE i \in Calls(b, "Acquire", "Authorizer") : TRUE
    IN  Log(b)[i].obj.token

\* the owner-indexed list of this cycle
Listed(b) == \E i \in Calls(b, "List", "Secret") : Log(b)[i].err = ""
ListedSecrets(b) ==
    LET i == CHOOSE i \in Calls(b, "List", "Secret") : TRUE
    IN  Log(b)[i].obj

\* the step just taken by b's reconciliation made call (op, kind), accepted by the store
Accepted(b, op, kind) ==
    /\ Len(rec'[b].log) = Len(rec[b].log) + 1
    /\ rec'[b].log[Len(rec'[b].log)].op = op
    /\ rec'[b].log[Len(rec'[b].log)].kind = kind
    /\ rec'[b].log[Len(rec'[b].log)].err = ""
Sent(b) == rec'[b].log[Len(rec'[b].log)].obj

-----------------------------------------------------------------------------
(* C1: an Active reconciliation whose Authorizer call succeeds and whose    *)
(* owner-indexed list is empty sends exactly one Create, no Update, of a    *)
(* Secret named <binding>-msi-acrpull-secret in the Binding's namespace,    *)
(* with a controller reference to the Binding, of the docker-config type,   *)
(* whose credential document carries the issued token as password; a        *)
(* Create the store accepts puts exactly that Secret in the store and       *)
(* touches no other; and when no call of the cycle fails, the cycle ends    *)
(* without error.                                                           *)

C1_Case(b) == Done(b) /\ Active(b) /\ AuthOk(b) /\ Listed(b) /\ ListedSecrets(b) = <<>>

C1_State ==
    \A b \in Bindings :
        C1_Case(b) =>
            /\ Cardinality(Calls(b, "Create", "Secret")) = 1
            /\ Calls(b, "Update", "Secret") = {}
            /\ \A i \in Calls(b, "Create", "Secret") :
                  LET sec == Log(b)[i].obj
                  IN  /\ sec.name = getPullSecretName(b)
                      /\ sec.namespace = Namespace
                      /\ sec.owner = b
                      /\ sec.type = SecretTypeDockerConfigJson
                      /\ ~sec.dataNil
                      /\ DOMAIN sec.data = {dockerConfigKey}
                      /\ sec.data[dockerConfigKey][3] = IssuedToken(b).Token
            /\ (AllCallsOk(b) => rec[b].result.err = "")

C1_Step ==
    \A b \in Bindings :
        Accepted(b, "Create", "Secret") =>
            /\ ~secrets[Sent(b).name].exists
            /\ secrets' = [secrets EXCEPT ![Sent(b).name] = Sent(b)]

C1_CreatesOneOwnedSecret == []C1_State /\ [][C1_Step]_vars

C1_Witness ==
    \E b \in Bindings :
        /\ C1_Case(b) /\ AllCallsOk(b) /\ rec[b].result.err = ""
        /\ secrets[getPullSecretName(b)].exists
        /\ secrets[getPullSecretName(b)].owner = b
        /\ secrets[getPullSecretName(b)].data[dockerConfigKey][3] = IssuedToken(b).Token

-----------------------------------------------------------------------------
(* C2: an Active reconciliation whose Authorizer call succeeds and whose    *)
(* owner-indexed list holds the Binding's Secret (that Secret alone, its    *)
(* data map present) sends no Create and exactly one Update, of that        *)
(* Secret with only the credential-file key replaced: name, namespace,      *)
(* owner reference, type, labels and every other data key are as listed;    *)
(* an Update the store accepts changes that Secret alone.                   *)

C2_Case(b) ==
    /\ Done(b) /\ Active(b) /\ AuthOk(b) /\ Listed(b)
    /\ Len(ListedSecrets(b)) = 1
    /\ ListedSecrets(b)[1].name = getPullSecretName(b)
    /\ ~ListedSecrets(b)[1].dataNil

C2_State ==
    \A b \in Bindings :
        C2_Case(b) =>
            /\ Calls(b, "Create", "Secret") = {}
            /\ Cardinality(Calls(b, "Update", "Secret")) = 1
            /\ \A i \in Calls(b, "Update", "Secret") :
                  LET old == ListedSecrets(b)[1]
                      sec == Log(b)[i].obj
                  IN  /\ sec.name = old.name /\ sec.namespace = old.namespace
                      /\ sec.owner = old.owner /\ sec.type = old.type
                      /\ sec.labels = old.labels /\ sec.exists
                      /\ ~sec.dataNil
                      /\ DOMAIN sec.data = (DOMAIN old.data) \cup {dockerConfigKey}
                      /\ \A k \in (DOMAIN old.data) \ {dockerConfigKey} :
                            sec.data[k] = old.data[k]
                      /\ sec.data[dockerConfigKey][3] = IssuedToken(b).Token

C2_Step ==
    \A b \in Bindings :
        Accepted(b, "Update", "Secret") =>
            secrets' = [secrets EXCEPT ![Sent(b).name] = Sent(b)]

C2_UpdatesCredentialOnly == []C2_State /\ [][C2_Step]_vars

\* the Secret had a label and a data key of its own, and still has them
C2_Witness ==
    \E b \in Bindings :
        /\ C2_Case(b) /\ AllCallsOk(b) /\ rec[b].result.err = ""
        /\ "team" \in ListedSecrets(b)[1].labels
        /\ "note" \in DOMAIN ListedSecrets(b)[1].data
        /\ "team" \in secrets[getPullSecretName(b)].labels
        /\ "note" \in DOMAIN secrets[getPullSecretName(b)].data
        /\ secrets[getPullSecretName(b)].data[dockerConfigKey][3] = IssuedToken(b).Token
        /\ Cardinality({n \in SecretNames : secrets[n].exists}) = 1

-----------------------------------------------------------------------------
(* C3: no ServiceAccount ever holds two references with a Binding's secret  *)
(* name, and an Active reconciliation that reads a ServiceAccount already   *)
(* holding the name sends no ServiceAccount write.                          *)

C3_AtMostOneReference ==
    /\ \A a \in ServiceAccountNames, b \in Bindings :
          Count(serviceAccounts[a].imagePullSecrets, getPullSecretName(b)) <= 1
    /\ \A b \in Bindings :
          \A i \in Calls(b, "Get", "ServiceAccount") :
              (/\ Active(b) /\ Log(b)[i].err = ""
               /\ Contains(Log(b)[i].obj.imagePullSecrets, getPullSecretName(b)))
                  => /\ Calls(b, "Update", "ServiceAccount") = {}
                     /\ rec[b].pc \in {"successStatus", "done"}

C3_Witness ==
    \E b \in Bindings :
        /\ Done(b) /\ Active(b) /\ rec[b].result.err = ""
        /\ \E i \in Calls(b, "Get", "ServiceAccount") :
              Contains(Log(b)[i].obj.imagePullSecrets, getPullSecretName(b))
        /\ Calls(b, "Update", "ServiceAccount") = {}
        /\ Count(serviceAccounts[defaultServiceAccountName].imagePullSecrets,
                 getPullSecretName(b)) = 1

-----------------------------------------------------------------------------
(* C4 (as stated): the delay is 0 when expiry < now + 30 minutes, exactly   *)
(* expiry - now - 30 minutes otherwise, and never negative.                 *)

C4_ExactDifference ==
    fn.op = "getTokenRefreshDuration" =>
        /\ fn.out >= 0
        /\ fn.out = IF fn.expiresOn < fn.now + tokenRefreshBuffer THEN 0
                    ELSE fn.expiresOn - fn.now - tokenRefreshBuffer

(* C4 (amended): the delay is 0 when expiry < now + 30 minutes, otherwise   *)
(* expiry - now - 30 minutes capped at the largest Duration, and never      *)
(* negative.                                                                *)

C4_SaturatedDifference ==
    fn.op = "getTokenRefreshDuration" =>
        /\ fn.out >= 0
        /\ fn.out = IF fn.expiresOn < fn.now + tokenRefreshBuffer THEN 0
                    ELSE Min(fn.expiresOn - fn.now - tokenRefreshBuffer, maxDuration)

C4_Witness ==
    /\ fn.op = "getTokenRefreshDuration"
    /\ fn.expiresOn > fn.now + tokenRefreshBuffer
    /\ fn.out = fn.expiresOn - fn.now - tokenRefreshBuffer
    /\ fn.out > 0 /\ fn.out < maxDuration

-----------------------------------------------------------------------------
(* C5 (as stated): the Authorizer entry point follows explicit client-id >  *)
(* explicit resource-id > default client-id > default resource-id.  A       *)
(* resource-id is explicit when it names a path: it is not empty and        *)
(* path.Clean of it is not ".".                                             *)

C5_Precedence ==
    fn.op = "specOrDefault" =>
        IF fn.spec.ManagedIdentityClientID /= EmptyStr
        THEN /\ fn.out.method = "AcquireACRAccessTokenWithClientID"
             /\ fn.out.id = fn.spec.ManagedIdentityClientID
        ELSE IF pathClean(fn.spec.ManagedIdentityResourceID) /= Dot
        THEN /\ fn.out.method = "AcquireACRAccessTokenWithResourceID"
             /\ fn.out.id = pathClean(fn.spec.ManagedIdentityResourceID)
        ELSE IF fn.r.DefaultManagedIdentityClientID /= EmptyStr
        THEN /\ fn.out.method = "AcquireACRAccessTokenWithClientID"
             /\ fn.out.id = fn.r.DefaultManagedIdentityClientID
        ELSE /\ fn.out.method = "AcquireACRAccessTokenWithResourceID"
             /\ fn.out.id = fn.r.DefaultManagedIdentityResourceID

-----------------------------------------------------------------------------
(* C6 (as stated): a reconciliation of a Binding that is not being deleted  *)
(* and lacks the finalizer only adds the finalizer and persists the         *)
(* Binding: it makes no Authorizer call and no Secret or ServiceAccount     *)
(* write.                                                                   *)

C6_Case(b) == Active(b) /\ ~hasFinalizer(FetchedBinding(b))

C6_OnlyAddsFinalizer ==
    \A b \in Bindings :
        (Done(b) /\ C6_Case(b)) =>
            /\ Len(Log(b)) = 2
            /\ Log(b)[2].op = "Update" /\ Log(b)[2].kind = "AcrPullBinding"
            /\ Calls(b, "Acquire", "Authorizer") = {}
            /\ Calls(b, "Create", "Secret") = {}
            /\ Calls(b, "Update", "ServiceAccount") = {}

(* C6 (amended): a reconciliation of a Binding that is not being deleted    *)
(* and lacks the finalizer first appends the finalizer and persists the     *)
(* Binding, before any other call; if that write fails the reconciliation   *)
(* ends with the write's error and makes no further call; if it succeeds    *)
(* the same reconciliation goes on to the Authorizer call.                  *)

C6_AddsFinalizerThenContinues ==
    \A b \in Bindings :
        C6_Case(b) =>
            /\ (Done(b) => Len(Log(b)) >= 2)
            /\ (Len(Log(b)) >= 2 =>
                  /\ Log(b)[2].op = "Update" /\ Log(b)[2].kind = "AcrPullBinding"
                  /\ Log(b)[2].obj.finalizers =
                        Append(FetchedBinding(b).finalizers, msiAcrPullFinalizerName)
                  /\ (Log(b)[2].err /= "" =>
                        /\ Done(b) /\ Len(Log(b)) = 2
                        /\ rec[b].result.err = Log(b)[2].err)
                  /\ (Log(b)[2].err = "" =>
                        /\ (Len(Log(b)) = 2 => rec[b].pc = "acquire")
                        /\ (Len(Log(b)) >= 3 => Log(b)[3].op = "Acquire")))

\* one reconciliation added the finalizer, created the Secret, attached it and
\* wrote the status
C6_Witness ==
    \E b \in Bindings :
        /\ Done(b) /\ C6_Case(b) /\ AllCallsOk(b) /\ rec[b].result.err = ""
        /\ Calls(b, "Create", "Secret") /= {}
        /\ Calls(b, "Update", "ServiceAccount") /= {}
        /\ Calls(b, "StatusUpdate", "AcrPullBinding") /= {}

-----------------------------------------------------------------------------
(* C7: a reconciliation of a Binding under deletion that carries the        *)
(* finalizer, and whose ServiceAccount is not found, sends no               *)
(* ServiceAccount write; its next and last call is the Update of the        *)
(* Binding without the finalizer; when the store accepts that Update the    *)
(* reconciliation ends without error and the Binding no longer carries the  *)
(* finalizer.                                                               *)

C7_Case(b) ==
    /\ Finalizing(b) /\ hasFinalizer(FetchedBinding(b))
    /\ Len(Log(b)) >= 2
    /\ Log(b)[2].op = "Get" /\ Log(b)[2].kind = "ServiceAccount"
    /\ Log(b)[2].err = "NotFound"

C7_MissingServiceAccountIsNoError ==
    \A b \in Bindings :
        C7_Case(b) =>
            /\ Calls(b, "Update", "ServiceAccount") = {}
            /\ (Len(Log(b)) = 2 => rec[b].pc = "finUpdate")
            /\ (Len(Log(b)) >= 3 =>
                  /\ Done(b) /\ Len(Log(b)) = 3
                  /\ Log(b)[3].op = "Update" /\ Log(b)[3].kind = "AcrPullBinding"
                  /\ Log(b)[3].obj.finalizers =
                        FilterOut(FetchedBinding(b).finalizers, msiAcrPullFinalizerName)
                  /\ rec[b].result = [err |-> Log(b)[3].err, RequeueAfter |-> 0]
                  /\ (Log(b)[3].err = "" => ~hasFinalizer(bindings[b])))

C7_Witness ==
    \E b \in Bindings :
        /\ Done(b) /\ C7_Case(b) /\ Len(Log(b)) = 3
        /\ rec[b].result.err = ""
        /\ ~hasFinalizer(bindings[b])

-----------------------------------------------------------------------------
(* C8: a reconciliation whose fetch of the Binding answers not-found ends   *)
(* with no error and no requeue after that one call (no write, no           *)
(* Authorizer call); any other fetch error ends it with that error; the     *)
(* fetch step leaves the store as it was.                                   *)

C8_State ==
    \A b \in Bindings :
        (Len(Log(b)) >= 1 /\ Log(b)[1].err /= "") =>
            /\ Done(b) /\ Len(Log(b)) = 1
            /\ Log(b)[1].op = "Get" /\ Log(b)[1].kind = "AcrPullBinding"
            /\ rec[b].result.RequeueAfter = 0
            /\ rec[b].result.err =
                  IF Log(b)[1].err = "NotFound" THEN "" ELSE Log(b)[1].err

C8_Step ==
    \A b \in Bindings :
        (rec[b].pc = "fetch" /\ rec'[b].pc = "done") =>
            UNCHANGED <<bindings, secrets, serviceAccounts>>

C8_NotFoundIsSwallowed == []C8_State /\ [][C8_Step]_vars

C8_Witness ==
    \E b \in Bindings :
        /\ Done(b) /\ Len(Log(b)) = 1 /\ Log(b)[1].err = "NotFound"
        /\ rec[b].result = NoResult
        /\ ~bindings[b].exists

-----------------------------------------------------------------------------
(* C9: when the Authorizer fails, the only call that follows is the status  *)
(* write carrying the Authorizer's error message; the reconciliation ends   *)
(* with the Authorizer's error and no requeue delay, whether the status     *)
(* write succeeds or fails; no Secret and no ServiceAccount call is made; a *)
(* status write the store accepts puts the message in the stored status     *)
(* and changes no Secret and no ServiceAccount.                             *)

C9_State ==
    \A b \in Bindings :
        AuthFailed(b) =>
            LET i == CHOOSE i \in Calls(b, "Acquire", "Authorizer") : TRUE
            IN  /\ Calls(b, "Acquire", "Authorizer") = {i}
                /\ Active(b)
                /\ (Len(Log(b)) = i => rec[b].pc = "errStatus")
                /\ (Len(Log(b)) > i =>
                      /\ Done(b) /\ Len(Log(b)) = i + 1
                      /\ Log(b)[i + 1].op = "StatusUpdate"
                      /\ Log(b)[i + 1].kind = "AcrPullBinding"
                      /\ Log(b)[i + 1].obj.status.Error = Log(b)[i].err
                      /\ rec[b].result = [err |-> Log(b)[i].err, RequeueAfter |-> 0])
                /\ \A j \in 1..Len(Log(b)) :
                      Log(b)[j].kind \notin {"Secret", "ServiceAccount"}

C9_Step ==
    \A b \in Bindings :
        (rec[b].pc = "errStatus" /\ Accepted(b, "StatusUpdate", "AcrPullBinding")) =>
            /\ bindings'[b].status.Error = rec[b].err
            /\ rec[b].err = "AuthErr"
            /\ UNCHANGED <<secrets, serviceAccounts>>

C9_AuthorizerErrorIsTheOutcome == []C9_State /\ [][C9_Step]_vars

\* the status write failed and the outcome is the Authorizer's error
C9_Witness ==
    \E b \in Bindings :
        /\ Done(b) /\ AuthFailed(b)
        /\ Log(b)[Len(Log(b))].op = "StatusUpdate"
        /\ Log(b)[Len(Log(b))].err = "StoreFault"
        /\ rec[b].result.err = "AuthErr"

-----------------------------------------------------------------------------
(* C10 (as stated): a refresh-token answer with an empty or absent token    *)
(* ends the exchange in error before the second exchange call; an           *)
(* access-token answer with an empty or absent token ends it in error;      *)
(* both return the zero AccessToken.                                        *)

ExCalled(api) == \E i \in 1..Len(ex.calls) : ex.calls[i].api = api

C10_EmptyTokenFailsEarly ==
    ex.pc = "done" =>
        /\ (/\ ExCalled("ExchangeAADAccessTokenForACRRefreshToken")
            /\ ~ex.refresh.err
            /\ (~ex.refresh.RefreshToken.present \/ ex.refresh.RefreshToken.value = ""))
              => /\ ~ExCalled("ExchangeACRRefreshTokenForACRAccessToken")
                 /\ ex.err /= ""
                 /\ ex.token = ZeroToken
        /\ (/\ ExCalled("ExchangeACRRefreshTokenForACRAccessToken")
            /\ ~ex.access.err
            /\ (~ex.access.present \/ ex.access.AccessToken.raw = ""))
              => /\ ex.err /= ""
                 /\ ex.token = ZeroToken

-----------------------------------------------------------------------------
(* Reading a finished exchange *)

\* both exchange calls answered without error and with a token present
ExBothAnswered ==
    /\ ex.pc = "done"
    /\ ExCalled("ExchangeAADAccessTokenForACRRefreshToken")
    /\ ~ex.refresh.err /\ ex.refresh.RefreshToken.present
    /\ ExCalled("ExchangeACRRefreshTokenForACRAccessToken")
    /\ ~ex.access.err /\ ex.access.present
ExClaim == ex.access.AccessToken.exp
\* the access token is a JWT whose exp claim is a number: a float64, or a
\* json.Number whose text is a decimal integer
ExNumericClaim ==
    /\ ExBothAnswered
    /\ ex.access.AccessToken.wellFormed
    /\ \/ ExClaim.type = "float64"
       \/ ExClaim.type = "json.Number" /\ ExClaim.text = "int"
\* the claim as whole seconds: its value with the fraction dropped
ExClaimSeconds ==
    IF ExClaim.half >= 0 THEN ExClaim.half \div 2 ELSE 0 - ((0 - ExClaim.half) \div 2)

(* C11, as stated: an exchange whose two calls succeed and whose access     *)
(* token carries a numeric exp claim (float64 or integer json.Number)       *)
(* returns no error, the access-token string unchanged, and an expiry equal *)
(* to the claim in whole seconds since the epoch.                           *)
C11_ExpiryIsClaim ==
    ExNumericClaim =>
        /\ ex.err = ""
        /\ ex.token.Token = ex.access.AccessToken.raw
        /\ ex.token.ExpiresOn = ExClaimSeconds

(* C11, amended: the same, with the expiry equal to the claim in whole      *)
(* seconds only when that number of seconds fits int64; the token string is *)
(* returned unchanged and without error in every numeric case.              *)
C11_ExpiryIsClaimWithinInt64 ==
    ExNumericClaim =>
        /\ ex.err = ""
        /\ ex.token.Token = ex.access.AccessToken.raw
        /\ (ExClaimSeconds \in minInt64..maxInt64
               => ex.token.ExpiresOn = ExClaimSeconds)

\* a float64 claim with a fraction, within int64, was decoded
C11_Witness ==
    /\ ExNumericClaim
    /\ ExClaim.type = "float64"
    /\ ExClaim.half = 3
    /\ ex.token.ExpiresOn = 1
    /\ ex.token.Token = "jwt"

-----------------------------------------------------------------------------
(* The order of the steps of an Active reconciliation *)

\* the place of a call in Reconcile's Active path
StepRank(e) ==
    CASE e.op = "Get" /\ e.kind = "AcrPullBinding" -> 1
      [] e.op = "Update" /\ e.kind = "AcrPullBinding" -> 2
      [] e.kind = "Authorizer" -> 3
      [] e.op = "List" -> 4
      [] e.kind = "Secret" -> 5
      [] e.op = "Get" /\ e.kind = "ServiceAccount" -> 6
      [] e.op = "Update" /\ e.kind = "ServiceAccount" -> 7
      [] OTHER -> 8

\* the calls of b's cycle so far are in the order of the Active path
InSequence(b) ==
    \A i, j \in 1..Len(Log(b)) : i < j => StepRank(Log(b)[i]) < StepRank(Log(b)[j])

\* a failed call is the last call of its cycle; only a failed Authorizer call
\* is followed by one more call, the write of the error status
FailureAborts(b) ==
    \A i \in 1..Len(Log(b)) :
        Log(b)[i].err /= "" =>
            \/ i = Len(Log(b)) /\ (Log(b)[i].kind /= "Authorizer" => Done(b))
            \/ /\ Log(b)[i].kind = "Authorizer"
               /\ i + 1 = Len(Log(b))
               /\ Log(b)[i + 1].op = "StatusUpdate"
               /\ Log(b)[i + 1].obj.status.Error = Log(b)[i].err
               /\ Done(b)

\* the store accepted a write of the Secret or of the ServiceAccount in b's cycle
WroteSecretOrServiceAccount(b) ==
    \E i \in 1..Len(Log(b)) :
        /\ Log(b)[i].kind \in {"Secret", "ServiceAccount"}
        /\ Log(b)[i].op \in {"Create", "Update"}
        /\ Log(b)[i].err = ""

\* the store accepted b's cycle's write of the success status
WroteFreshStatus(b) ==
    \E i \in 1..Len(Log(b)) :
        /\ Log(b)[i].op = "StatusUpdate"
        /\ Log(b)[i].err = ""
        /\ Log(b)[i].obj.status.Error = ""

-----------------------------------------------------------------------------
(* Two Bindings reconciled at once *)

Other(b) == CHOOSE o \in Bindings : o /= b

\* the writes of b's cycle so far go to b's own Binding, b's own derived
\* Secret, and the ServiceAccount b's spec names
WritesOwnObjects(b) ==
    \A i \in 1..Len(Log(b)) :
        LET e == Log(b)[i]
        IN  /\ e.kind = "AcrPullBinding" => e.name = b
            /\ e.kind = "Secret" /\ e.op \in {"Create", "Update"}
                  => e.name = getPullSecretName(b)
            /\ e.kind = "ServiceAccount"
                  => e.name = getServiceAccountName(InitialSpec(b).ServiceAccountName)

\* the store accepted a ServiceAccount write of b's cycle for ServiceAccount a
WroteServiceAccount(b, a) ==
    \E i \in Calls(b, "Update", "ServiceAccount") :
        Log(b)[i].err = "" /\ Log(b)[i].name = a

\* a ServiceAccount write of b's cycle was rejected as a Conflict
ServiceAccountConflict(b) ==
    \E i \in Calls(b, "Update", "ServiceAccount") : Log(b)[i].err = "Conflict"

\* a write of b's cycle the store accepts leaves the other Binding, its Secret
\* and every reference not named after b's Secret as they were
C13_Step ==
    \A b \in Bindings :
        Len(rec'[b].log) = Len(rec[b].log) + 1 =>
            /\ bindings'[Other(b)] = bindings[Other(b)]
            /\ secrets'[getPullSecretName(Other(b))] = secrets[getPullSecretName(Other(b))]
            /\ \A a \in ServiceAccountNames :
                  FilterOut(serviceAccounts'[a].imagePullSecrets, getPullSecretName(b))
                      = FilterOut(serviceAccounts[a].imagePullSecrets, getPullSecretName(b))

\* a call of b's cycle fails only with the Authorizer's error, with NotFound
\* after the user's deletion, or with a Conflict on the shared ServiceAccount
C13_State ==
    \A b \in Bindings :
        /\ WritesOwnObjects(b)
        /\ \A i \in 1..Len(Log(b)) :
              Log(b)[i].err /= "" =>
                  \/ Log(b)[i].kind = "Authorizer"
                  \/ Log(b)[i].kind = "AcrPullBinding"
                        /\ Log(b)[i].err \in {"NotFound", "Conflict"}
                  \/ Log(b)[i].kind = "ServiceAccount" /\ Log(b)[i].op = "Update"
                        /\ Log(b)[i].err = "Conflict"

(* C13, as stated: in no interleaving of the reconciliations of two         *)
(* Bindings do both write the same object, and none fails because of the    *)
(* other (its ServiceAccount write is never rejected as a Conflict).        *)
C13_NoSharedObject ==
    \A b \in Bindings :
        /\ WritesOwnObjects(b)
        /\ ~ServiceAccountConflict(b)
        /\ \A a \in ServiceAccountNames :
              ~(WroteServiceAccount(b, a) /\ WroteServiceAccount(Other(b), a))

(* C13, amended: each reconciliation writes its own Binding and its own     *)
(* derived Secret only, but the ServiceAccount is shared; a write of it by  *)
(* one reconciliation never drops or changes a reference of the other (no   *)
(* lost update), and the only failure one reconciliation causes the other   *)
(* is a Conflict on the ServiceAccount update.                              *)
C13_SharedServiceAccountNoLostUpdate == []C13_State /\ [][C13_Step]_vars

\* both reconciliations wrote the default ServiceAccount, which lists both
\* Secrets, and b2's cycle has had a ServiceAccount write rejected
C13_Witness ==
    /\ WroteServiceAccount("b1", defaultServiceAccountName)
    /\ Contains(serviceAccounts[defaultServiceAccountName].imagePullSecrets,
                getPullSecretName("b1"))
    /\ ServiceAccountConflict("b2")
    /\ ~Contains(serviceAccounts[defaultServiceAccountName].imagePullSecrets,
                 getPullSecretName("b2"))

-----------------------------------------------------------------------------
(* The status a successful Active reconciliation leaves *)

\* the refresh delay for a token expiring at expiresOn, computed at nowT
RefreshDelay(expiresOn, nowT) ==
    Max(0, Min(maxDuration, expiresOn - nowT - tokenRefreshBuffer))

\* b's cycle is an Active one that ended without error
Succeeded(b) == Done(b) /\ Active(b) /\ rec[b].result.err = ""

\* the last call of a successful Active cycle is the accepted write of a
\* status that holds the issued token's expiry, the time of the write and no
\* error; the result asks for a requeue after the refresh delay; and the
\* stored status is that status
C14_State ==
    \A b \in Bindings :
        Succeeded(b) =>
            LET e == Log(b)[Len(Log(b))]
            IN  /\ AuthOk(b)
                /\ e.op = "StatusUpdate" /\ e.kind = "AcrPullBinding" /\ e.err = ""
                /\ e.obj.status.Error = ""
                /\ e.obj.status.TokenExpirationTime = IssuedToken(b).ExpiresOn
                /\ e.obj.status.LastTokenRefreshTime \in 0..now
                /\ rec[b].result.RequeueAfter
                      = RefreshDelay(IssuedToken(b).ExpiresOn,
                                     e.obj.status.LastTokenRefreshTime)
                /\ (bindings[b].exists => bindings[b].status = e.obj.status)

\* the accepted write replaces the stored status, whatever it held, and
\* nothing else of the Binding
C14_Step ==
    \A b \in Bindings :
        (rec[b].pc = "successStatus" /\ Accepted(b, "StatusUpdate", "AcrPullBinding")) =>
            /\ bindings'[b] = [bindings[b] EXCEPT !.status =
                  [TokenExpirationTime |-> rec[b].token.ExpiresOn,
                   LastTokenRefreshTime |-> now,
                   Error |-> ""]]
            /\ rec'[b].result =
                  [err |-> "", RequeueAfter |-> RefreshDelay(rec[b].token.ExpiresOn, now)]

(* C14: every Active reconciliation that ends without error has, as its     *)
(* last call, replaced the Binding's whole status by: expiration = the      *)
(* issued token's expiry, last refresh = the time of this reconciliation,   *)
(* error empty (whatever error the status held before); and its result      *)
(* requests a requeue after the refresh delay computed from that token.     *)
C14_SuccessStatusOverwrites == []C14_State /\ [][C14_Step]_vars

\* a successful cycle whose fetched Binding carried the error of an earlier
\* cycle: the stored status has no error and a requeue is requested
C14_Witness ==
    /\ Succeeded("b1")
    /\ FetchedBinding("b1").status.Error /= ""
    /\ bindings["b1"].exists
    /\ bindings["b1"].status.Error = ""
    /\ bindings["b1"].status.TokenExpirationTime = IssuedToken("b1").ExpiresOn
    /\ rec["b1"].result.RequeueAfter > 0

-----------------------------------------------------------------------------
(* The reconciliation of a Binding under deletion *)

\* the finalizing cycle read its ServiceAccount
FinReadServiceAccount(b) ==
    /\ Finalizing(b) /\ hasFinalizer(FetchedBinding(b))
    /\ Len(Log(b)) >= 2
    /\ Log(b)[2].op = "Get" /\ Log(b)[2].kind = "ServiceAccount"
    /\ Log(b)[2].err = ""

C15_State ==
    \A b \in Bindings :
        Finalizing(b) =>
            /\ \A i \in 1..Len(Log(b)) :
                  /\ Log(b)[i].kind \notin {"Authorizer", "Secret"}
                  /\ Log(b)[i].op /= "StatusUpdate"
            /\ (Done(b) => rec[b].result.RequeueAfter = 0)
            /\ (~hasFinalizer(FetchedBinding(b)) =>
                  /\ Done(b) /\ Len(Log(b)) = 1
                  /\ rec[b].result = [err |-> "", RequeueAfter |-> 0])
            /\ (hasFinalizer(FetchedBinding(b)) /\ Len(Log(b)) >= 2 =>
                  /\ Log(b)[2].op = "Get" /\ Log(b)[2].kind = "ServiceAccount"
                  /\ Log(b)[2].name =
                        getServiceAccountName(FetchedBinding(b).spec.ServiceAccountName))
            /\ (FinReadServiceAccount(b) =>
                  /\ (Len(Log(b)) = 2 => rec[b].pc = "finUpdateServiceAccount")
                  /\ (Len(Log(b)) >= 3 =>
                        /\ Log(b)[3].op = "Update" /\ Log(b)[3].kind = "ServiceAccount"
                        /\ Log(b)[3].obj =
                              [Log(b)[2].obj EXCEPT !.imagePullSecrets =
                                  FilterOut(@, getPullSecretName(b))]
                        /\ ~Contains(Log(b)[3].obj.imagePullSecrets, getPullSecretName(b))
                        /\ (Log(b)[3].err = "" /\ Len(Log(b)) = 3
                               => rec[b].pc = "finUpdate"))
                  /\ (Len(Log(b)) >= 4 =>
                        /\ Done(b) /\ Len(Log(b)) = 4
                        /\ Log(b)[3].err = ""
                        /\ Log(b)[4].op = "Update" /\ Log(b)[4].kind = "AcrPullBinding"
                        /\ Log(b)[4].obj =
                              [FetchedBinding(b) EXCEPT !.finalizers =
                                  FilterOut(@, msiAcrPullFinalizerName)]
                        /\ rec[b].result = [err |-> Log(b)[4].err, RequeueAfter |-> 0]))

\* the writes the store accepts from a finalizing cycle are stored as sent;
\* the fetch of a Binding under deletion without the finalizer changes nothing
C15_Step ==
    \A b \in Bindings :
        /\ (rec[b].pc = "finUpdateServiceAccount" /\ Accepted(b, "Update", "ServiceAccount"))
              => /\ serviceAccounts' =
                        [serviceAccounts EXCEPT ![Sent(b).name] = Sent(b)]
                 /\ UNCHANGED <<bindings, secrets>>
        /\ (rec[b].pc = "finUpdate" /\ Accepted(b, "Update", "AcrPullBinding"))
              => /\ ~hasFinalizer(bindings'[b])
                 /\ UNCHANGED <<serviceAccounts, secrets>>
        /\ (rec[b].pc = "fetch" /\ Accepted(b, "Get", "AcrPullBinding"))
              => UNCHANGED <<bindings, serviceAccounts, secrets>>

(* C15: a reconciliation of a Binding with a deletion timestamp makes no    *)
(* Authorizer call, no Secret call and no status write, and never asks for  *)
(* a requeue; with the finalizer present and the ServiceAccount read, its   *)
(* next call is the Update of that ServiceAccount without any reference     *)
(* named after the derived Secret, and once the store accepts it the next   *)
(* and last call is the Update of the Binding without the finalizer; with   *)
(* the finalizer absent the fetch is its only call and nothing is written.  *)
C15_DeletionPath == []C15_State /\ [][C15_Step]_vars

\* a finished finalization: the ServiceAccount held the reference when read,
\* holds it no longer, and the Binding no longer carries the finalizer
C15_Witness ==
    /\ Done("b1") /\ FinReadServiceAccount("b1") /\ Len(Log("b1")) = 4
    /\ Contains(Log("b1")[2].obj.imagePullSecrets, getPullSecretName("b1"))
    /\ AllCallsOk("b1")
    /\ ~Contains(serviceAccounts[Log("b1")[2].name].imagePullSecrets,
                 getPullSecretName("b1"))
    /\ ~hasFinalizer(bindings["b1"])

-----------------------------------------------------------------------------
(* C16: every Secret Update a reconciliation of Binding b sends is for the  *)
(* Secret named <b>-msi-acrpull-secret, whatever the order of the           *)
(* owner-indexed list, and the Secrets b owns under other names stay as     *)
(* they are in the store.                                                   *)
C16_UpdatesNamedSecret ==
    \A b \in Bindings :
        \A i \in Calls(b, "Update", "Secret") :
            /\ Log(b)[i].name = getPullSecretName(b)
            /\ Log(b)[i].err = "" /\ secrets[ExtraSecretName].exists
                  => secrets[ExtraSecretName].data = [k \in {"note"} |-> <<"opaque">>]

-----------------------------------------------------------------------------
(* The Authorizer's entry points *)

\* the calls of the current entry-point call to api
ExCallsTo(api) == {i \in 1..Len(ex.calls) : ex.calls[i].api = api}

(* C17: every finished call of an entry point (by resource id, by client    *)
(* id; the first call and any later one) made exactly one AcquireARMToken   *)
(* call, as its first call; when that failed it made no other call and      *)
(* returned the error "failed to get ARM access token" with the zero        *)
(* AccessToken; otherwise it called ExchangeACRAccessToken exactly once,    *)
(* with the identity token just acquired and the registry host it was       *)
(* given, and returned what that call returned.                             *)
C17_EntryPointAcquiresThenExchanges ==
    /\ ex.pc = "exchange" => ex.armToken \in ArmTokens /\ Len(ex.calls) = 1
    /\ ex.pc = "done" =>
          /\ ExCallsTo("AcquireARMToken") = {1}
          /\ ex.calls[1].arg = ex.method
          /\ ex.armToken = "" =>
                /\ Len(ex.calls) = 1
                /\ ex.token = ZeroToken
                /\ ex.err = "failed to get ARM access token"
          /\ ex.armToken /= "" =>
                /\ ExCallsTo("ExchangeACRAccessToken") = {2}
                /\ ex.calls[2].arg = <<ex.armToken, ex.acrFQDN>>
                /\ ex.err /= "failed to get ARM access token"
                /\ \A i \in ExCallsTo("ExchangeAADAccessTokenForACRRefreshToken") :
                      ex.calls[i].arg = ex.armToken
                /\ (ex.err = "" => /\ ExBothAnswered
                                   /\ ex.token.Token = ex.access.AccessToken.raw)
                /\ (ex.err /= "" => ex.token = ZeroToken)

\* a second call of an entry point acquired an identity token of its own,
\* another one than the first call's, and returned the exchanger's token
C17_Witness ==
    /\ ex.pc = "done" /\ ex.n = 2
    /\ ex.prevArmToken = "arm1" /\ ex.armToken = "arm2"
    /\ ex.calls[1].api = "AcquireARMToken"
    /\ ex.calls[2].arg = <<"arm2", ex.acrFQDN>>
    /\ ex.err = "" /\ ex.token.Token = "jwt"

-----------------------------------------------------------------------------
\* the access token cannot be decoded: it is no JWT, or its exp claim is
\* missing, or is no number, or is a json.Number whose text is no integer
ExUndecodable ==
    /\ ExBothAnswered
    /\ \/ ~ex.access.AccessToken.wellFormed
       \/ ExClaim.type \in {"missing", "string"}
       \/ ExClaim.type = "json.Number" /\ ExClaim.text /= "int"

-----------------------------------------------------------------------------
(* The order of cleanup and finalizer removal *)

\* the ServiceAccount cleanup of b's finalizing cycle has finished well: the
\* ServiceAccount was not found, or its Update was accepted
CleanupFinished(b) ==
    /\ Len(Log(b)) >= 2
    /\ Log(b)[2].op = "Get" /\ Log(b)[2].kind = "ServiceAccount"
    /\ \/ Log(b)[2].err = "NotFound"
       \/ /\ Log(b)[2].err = ""
          /\ Len(Log(b)) >= 3
          /\ Log(b)[3].op = "Update" /\ Log(b)[3].kind = "ServiceAccount"
          /\ Log(b)[3].err = ""

\* the ServiceAccount cleanup of b's finalizing cycle failed at call i
CleanupFailedAt(b, i) ==
    /\ Finalizing(b) /\ hasFinalizer(FetchedBinding(b))
    /\ Len(Log(b)) >= i
    /\ Log(b)[i].kind = "ServiceAccount"
    /\ Log(b)[i].err \notin {"", "NotFound"}

C19_State ==
    \A b \in Bindings :
        Finalizing(b) =>
            /\ \A i \in Calls(b, "Update", "AcrPullBinding") : CleanupFinished(b)
            /\ (rec[b].pc = "finUpdate" => CleanupFinished(b))
            /\ \A i \in {2, 3} :
                  CleanupFailedAt(b, i) =>
                      /\ Done(b) /\ Len(Log(b)) = i
                      /\ rec[b].result = [err |-> Log(b)[i].err, RequeueAfter |-> 0]
                      /\ bindings[b].exists /\ hasFinalizer(bindings[b])

\* the finalizer leaves the stored Binding only by the Update that follows a
\* finished cleanup
C19_Step ==
    \A b \in Bindings :
        (hasFinalizer(bindings[b]) /\ ~hasFinalizer(bindings'[b])) =>
            /\ rec[b].pc = "finUpdate"
            /\ CleanupFinished(b)
            /\ Accepted(b, "Update", "AcrPullBinding")

(* C19: in a finalizing reconciliation the Update that removes the          *)
(* finalizer is sent only after the ServiceAccount was not found or its     *)
(* Update was accepted; when the read of the ServiceAccount fails with      *)
(* another error, or its Update fails, that call is the last of the cycle,  *)
(* the cycle returns that error, and the stored Binding still carries the   *)
(* finalizer.                                                               *)
C19_FinalizerRemovedAfterCleanup == []C19_State /\ [][C19_Step]_vars

\* a finalizing cycle whose ServiceAccount Update failed: it returned the
\* error and the Binding still carries the finalizer
C19_Witness ==
    /\ Done("b1") /\ CleanupFailedAt("b1", 3)
    /\ Log("b1")[3].op = "Update"
    /\ rec["b1"].result.err = Log("b1")[3].err
    /\ hasFinalizer(bindings["b1"])

-----------------------------------------------------------------------------
\* the finalization of b is complete: the finalizer is off the Binding, which
\* is under deletion or already gone
FinalizationComplete(b) ==
    \/ ~bindings[b].exists
    \/ bindings[b].deleting /\ ~hasFinalizer(bindings[b])

(* C20: once the finalization of Binding b is complete, no ServiceAccount   *)
(* lists a reference named <b>-msi-acrpull-secret, whatever reconciliations *)
(* and spec updates (a change of the ServiceAccount name included) came     *)
(* before the deletion.                                                     *)
C20_NoReferenceAfterFinalization ==
    \A b \in Bindings :
        FinalizationComplete(b) =>
            \A a \in ServiceAccountNames :
                ~Contains(serviceAccounts[a].imagePullSecrets, getPullSecretName(b))

-----------------------------------------------------------------------------
\* b's cycle reached the update branch with a Secret to update in place
C21_Case(b) ==
    /\ Listed(b)
    /\ getPullSecret(FetchedBinding(b), ListedSecrets(b)) /= 0
    /\ Len(Log(b)) > (CHOOSE i \in Calls(b, "List", "Secret") : TRUE)

(* C21: whenever a reconciliation updates an owned Secret in place, the      *)
(* update step does not crash, whatever the Secret's data holds (a data map *)
(* that is empty or absent included): the call that follows the List is an  *)
(* Update whose Secret holds the credential document of this cycle under    *)
(* .dockerconfigjson.                                                       *)
C21_UpdateNeverCrashes ==
    \A b \in Bindings :
        C21_Case(b) =>
            LET e == Log(b)[(CHOOSE i \in Calls(b, "List", "Secret") : TRUE) + 1]
            IN  /\ e.op = "Update" /\ e.kind = "Secret"
                /\ e.err /= "panic"
                /\ dockerConfigKey \in DOMAIN e.obj.data
                /\ e.obj.data[dockerConfigKey] =
                      CreateACRDockerCfg(
                          specOrDefault(Reconciler, FetchedBinding(b).spec).acrServer,
                          IssuedToken(b))

====
